---- MODULE Spec2Model ----
(***************************************************************************)
(* Model of generate_prompts.py: configuration loading, authentication,    *)
(* topic/keyword extraction, the poll-until-complete loop, the incremental *)
(* persistence sink and the run loop of main, with the user interrupt      *)
(* (KeyboardInterrupt) as an asynchronous event.                           *)
(*                                                                         *)
(* Strings are sequences of symbols.  A symbol is one character (" ",      *)
(* "\n", "|", ",", "=", "a", ...) or one of the literals the code searches *)
(* for as a whole ("Topic:", "Keywords:", "sk-", "OPENAI_API_KEY",         *)
(* "ASSISTANT_ID"); no concatenation of the other symbols forms one of     *)
(* these literals, so the string operations below act on such sequences as *)
(* Python's act on the text they stand for.                                *)
(***************************************************************************)
EXTENDS Integers, Sequences, FiniteSets, TLC

----------------------------------------------------------------------------
(* Python str operations used by the code *)

Whitespace == {" ", "\n"}

RECURSIVE LStrip(_)
LStrip(s) == IF s # <<>> /\ Head(s) \in Whitespace THEN LStrip(Tail(s)) ELSE s

RECURSIVE RStrip(_)
RStrip(s) ==
    IF s # <<>> /\ s[Len(s)] \in Whitespace
    THEN RStrip(SubSeq(s, 1, Len(s) - 1))
    ELSE s

\* str.strip()
Strip(s) == RStrip(LStrip(s))

\* str.startswith(p)
StartsWith(s, p) == Len(s) >= Len(p) /\ SubSeq(s, 1, Len(p)) = p

OccursAt(s, sub, k) == k + Len(sub) - 1 <= Len(s) /\ SubSeq(s, k, k + Len(sub) - 1) = sub

\* sub in s
Contains(s, sub) == \E k \in 1..Len(s) : OccursAt(s, sub, k)

\* str.split(sep): the parts between the non-overlapping occurrences of sep,
\* found from the left
RECURSIVE Split(_, _)
Split(s, sep) ==
    IF ~Contains(s, sep)
    THEN <<s>>
    ELSE LET k == CHOOSE k \in 1..Len(s) :
                      /\ OccursAt(s, sep, k)
                      /\ \A j \in 1..(k - 1) : ~OccursAt(s, sep, j)
         IN  <<SubSeq(s, 1, k - 1)>> \o Split(SubSeq(s, k + Len(sep), Len(s)), sep)

RECURSIVE Concat(_)
Concat(parts) == IF parts = <<>> THEN <<>> ELSE Head(parts) \o Concat(Tail(parts))

\* str.replace(old, '')
Remove(s, old) == Concat(Split(s, old))

----------------------------------------------------------------------------
(* load_config *)

required_keys == << <<"OPENAI_API_KEY">>, <<"ASSISTANT_ID">> >>

NoValue == <<"<None>">>

\* config[key] = value
DictSet(d, key, value) ==
    [x \in (DOMAIN d) \cup {key} |-> IF x = key THEN value ELSE d[x]]

EmptyDict == [x \in {} |-> <<>>]

\* the loop over the lines of config.txt; a line whose stripped text does not
\* split into exactly two parts makes the unpacking raise ValueError
RECURSIVE ReadConfigLines(_, _)
ReadConfigLines(lines, config) ==
    IF lines = <<>>
    THEN [raised |-> "none", config |-> config]
    ELSE LET line == Head(lines)
             parts == Split(Strip(line), <<"=">>)
         IN  IF ~Contains(line, <<"=">>)
             THEN ReadConfigLines(Tail(lines), config)
             ELSE IF Len(parts) # 2
             THEN [raised |-> "ValueError:unpack", config |-> config]
             ELSE ReadConfigLines(Tail(lines), DictSet(config, parts[1], parts[2]))

\* the environment fills in the required keys the file did not give;
\* an unset or empty environment value is not taken
RECURSIVE FillFromEnv(_, _, _)
FillFromEnv(keys, environ, config) ==
    IF keys = <<>>
    THEN config
    ELSE LET key == Head(keys)
             env_value == environ[key]
         IN  IF key \notin DOMAIN config /\ env_value # NoValue /\ env_value # <<>>
             THEN FillFromEnv(Tail(keys), environ, DictSet(config, key, env_value))
             ELSE FillFromEnv(Tail(keys), environ, config)

\* missing_keys, in the order of required_keys
MissingKeys(config) ==
    SelectSeq(required_keys, LAMBDA key : key \notin DOMAIN config)

\* load_config(): file is NoFile (config.txt absent) or the sequence of its
\* lines; environ maps each required key to its value or NoValue
NoFile == << <<"<absent>">> >>

load_config(file, environ) ==
    LET read   == IF file = NoFile
                  THEN [raised |-> "none", config |-> EmptyDict]
                  ELSE ReadConfigLines(file, EmptyDict)
        config == FillFromEnv(required_keys, environ, read.config)
    IN  IF read.raised # "none"
        THEN [raised |-> read.raised, config |-> EmptyDict, missing |-> <<>>]
        ELSE IF MissingKeys(config) # <<>>
        THEN [raised |-> "ValueError:missing", config |-> EmptyDict,
              missing |-> MissingKeys(config)]
        ELSE [raised |-> "none", config |-> config, missing |-> <<>>]

----------------------------------------------------------------------------
(* generate_topic_keywords: parsing of the response *)

Sep == <<" ", "|", " ">>

KeywordsPerTopic == 5

\* [k.strip() for k in parts]
StripAll(parts) == [n \in 1..Len(parts) |-> Strip(parts[n])]

\* ParseCombo without the test of the number of keywords (lines 134-136)
ParseComboAnyCount(combo) ==
    IF ~Contains(combo, Sep)
    THEN [ok |-> FALSE, warning |-> "missing separator"]
    ELSE LET parts == Split(combo, Sep)
         IN  IF Len(parts) # 2
             THEN [ok |-> FALSE, warning |-> "error parsing"]
             ELSE LET topic_part    == parts[1]
                      keywords_part == parts[2]
                      topic    == Strip(Remove(topic_part, <<"Topic:">>))
                      keywords == StripAll(Split(Remove(keywords_part, <<"Keywords:">>), <<",">>))
                  IN  IF ~StartsWith(topic_part, <<"Topic:">>)
                         \/ ~StartsWith(keywords_part, <<"Keywords:">>)
                      THEN [ok |-> FALSE, warning |-> "missing prefix"]
                      ELSE IF topic = <<>> \/ keywords = <<>>
                      THEN [ok |-> FALSE, warning |-> "empty topic or keywords"]
                      ELSE [ok |-> TRUE, topic |-> topic, keywords |-> keywords]

\* the body of the loop over the lines: the combination the line gives, or the
\* warning printed when the line is skipped
ParseCombo(combo) ==
    IF ~Contains(combo, Sep)
    THEN [ok |-> FALSE, warning |-> "missing separator"]
    ELSE LET parts == Split(combo, Sep)
         IN  IF Len(parts) # 2
             THEN [ok |-> FALSE, warning |-> "error parsing"]
             ELSE LET topic_part    == parts[1]
                      keywords_part == parts[2]
                      topic    == Strip(Remove(topic_part, <<"Topic:">>))
                      keywords == StripAll(Split(Remove(keywords_part, <<"Keywords:">>), <<",">>))
                  IN  IF ~StartsWith(topic_part, <<"Topic:">>)
                         \/ ~StartsWith(keywords_part, <<"Keywords:">>)
                      THEN [ok |-> FALSE, warning |-> "missing prefix"]
                      ELSE IF topic = <<>> \/ keywords = <<>>
                      THEN [ok |-> FALSE, warning |-> "empty topic or keywords"]
                      ELSE IF Len(keywords) # KeywordsPerTopic
                      THEN [ok |-> FALSE, warning |-> "expected 5 keywords"]
                      ELSE [ok |-> TRUE, topic |-> topic, keywords |-> keywords]

RECURSIVE ParseLines(_, _, _)
ParseLines(combinations, result, warnings) ==
    IF combinations = <<>>
    THEN [result |-> result, warnings |-> warnings]
    ELSE LET p == ParseCombo(Head(combinations))
         IN  IF p.ok
             THEN ParseLines(Tail(combinations),
                             Append(result, [topic |-> p.topic, keywords |-> p.keywords]),
                             warnings)
             ELSE ParseLines(Tail(combinations), result, Append(warnings, p.warning))

\* lines 107-146: strip the text, split it into lines, parse each, raise if
\* nothing was parsed
ParseResponse(text) ==
    LET response     == Strip(text)
        combinations == Split(response, <<"\n">>)
        parsed       == ParseLines(combinations, <<>>, <<>>)
    IN  [raised   |-> IF parsed.result = <<>> THEN "ValueError:no combinations" ELSE "none",
         result   |-> parsed.result,
         warnings |-> parsed.warnings]

----------------------------------------------------------------------------
(* Bounds of the model and constants of the program *)

MaxPrompts == 1       \* -n ranges over 0..MaxPrompts
MaxJobs    == 6       \* remote jobs created in one run
MaxTicks   == 3       \* advances of the clock during one poll loop
TickStep   == 300     \* seconds the clock advances at a time
MaxLines   == 3       \* lines of a response given to the parser alone
MaxItems   == 3       \* items given to save_prompt alone
MaxConfigLines == 2   \* lines of config.txt given to load_config alone
MaxStubPrompts == 3   \* -n ranges over 0..MaxStubPrompts when every run completes at once
MaxStubLines   == 2   \* well formed lines the topic run answers with then
MaxLoopPrompts == 2   \* -n ranges over 0..MaxLoopPrompts when the run loop is taken alone
MaxLoopLines   == 2   \* well formed lines the topic run answers with then

timeout_seconds == 600

----------------------------------------------------------------------------
(* State *)

VARIABLES
    pc,                 \* where main is
    exitCode,           \* exit status of the process, once pc = "exited"
    exitCause,          \* why the process ended
    configFile,         \* config.txt: NoFile or its lines
    environ,            \* the environment, for the required keys
    num_prompts,        \* args.num_prompts
    remote,             \* how the remote service and the file system behave
    loaded,             \* what load_config returned or raised
    now,                \* the wall clock, in seconds since the polled run was created
    today,              \* the date of the wall clock
    jobs,               \* the runs created so far, by kind
    awaited,            \* the runs whose poll loop has not ended
    jobStatus,          \* remote status of the run being polled, "none" without one
    start_time,         \* start_time of the poll loop
    lineShapes,         \* how the lines of the topic response are built
    responseText,       \* the text the topic job answers with
    parsed,             \* what the parsing of the response returned or raised
    combinations,       \* main's combinations
    ci, ki, i,          \* positions of the three nested loops of main
    prompt,             \* the prompt being saved
    filename,           \* save_prompt's filename
    existing_content,   \* save_prompt's existing_content
    buf,                \* text written to the open file and not yet flushed
    files,              \* content of each output file, NoContent if absent
    num_generated,      \* main's counter
    last_filename,      \* main's last_filename
    todo,               \* items still to be given to save_prompt alone
    prior,              \* content of the output files before the run
    saved,              \* history: <<filename, prompt>> of each save_prompt that returned
    attempted,          \* history: calls of generate_prompt
    failed,             \* history: items whose generation or saving raised
    timeouts,           \* history: the elapsed seconds at which TimeoutError was raised
    setupOK,            \* history: the authentication phase succeeded
    topicsOK,           \* history: the topic fetch succeeded
    intAt,              \* history: where main was when the interrupt arrived
    log,                \* history: the warnings and item errors printed
    promptFrom          \* history: the status the poll loop read last for the run
                        \* whose text prompt holds

inputVars == <<configFile, environ, num_prompts, remote, lineShapes, responseText, prior, todo>>
ctlVars   == <<pc, exitCode, exitCause>>
clockVars == <<now, today>>
jobVars   == <<jobs, awaited, jobStatus, start_time>>
loopVars  == <<combinations, ci, ki, i>>
saveVars  == <<prompt, filename, existing_content, buf>>
countVars == <<num_generated, last_filename>>
histVars  == <<saved, attempted, failed, timeouts, setupOK, topicsOK, intAt, log,
               promptFrom>>

vars == <<pc, exitCode, exitCause, configFile, environ, num_prompts, loaded, now,
          today, jobs, awaited, jobStatus, start_time, lineShapes, responseText,
          parsed, combinations, ci, ki, i, prompt, filename, existing_content,
          buf, files, num_generated, last_filename, todo, prior, saved, attempted, failed,
          timeouts, setupOK, topicsOK, intAt, remote, log, promptFrom>>

NoContent == <<"<absent>">>
Dates     == 0..1

\* midjourney_prompts_<YYMMDD>.txt for the date d
FileName(d) == IF d = 0 THEN "midjourney_prompts_day0.txt" ELSE "midjourney_prompts_day1.txt"

FileNames == {FileName(d) : d \in Dates}

Goto(p) == pc' = p /\ UNCHANGED <<exitCode, exitCause>>

Exit(code, cause) == pc' = "exited" /\ exitCode' = code /\ exitCause' = cause

\* an exception no handler catches: the interpreter prints the traceback and
\* the process ends with status 1
Uncaught(cause) == Exit(1, cause)

----------------------------------------------------------------------------
(* Inputs of a run *)

Key1 == <<"OPENAI_API_KEY">>
Key2 == <<"ASSISTANT_ID">>

\* the line KEY=value of config.txt
ConfigLine(key, value) == key \o <<"=">> \o value

Env(v1, v2) == [k \in {Key1, Key2} |-> IF k = Key1 THEN v1 ELSE v2]

\* how a line of the topic response is built: with or without the "Topic:"
\* prefix, a topic (0: none), so many " | " separators, with or without the
\* "Keywords:" prefix, so many keywords
Shape(tp, topic, seps, kp, nkw) ==
    [tp |-> tp, topic |-> topic, seps |-> seps, kp |-> kp, nkw |-> nkw]

TopicText(n) == IF n = 0 THEN <<>> ELSE IF n = 1 THEN <<"t1">> ELSE <<"t2">>

RECURSIVE KeywordList(_)
KeywordList(n) ==
    IF n = 0 THEN <<>>
    ELSE IF n = 1 THEN <<" ", "w">>
    ELSE KeywordList(n - 1) \o <<",", " ", "w">>

RenderLine(sh) ==
    (IF sh.tp THEN <<"Topic:">> ELSE <<>>)
    \o (IF sh.topic = 0 THEN <<>> ELSE <<" ">> \o TopicText(sh.topic))
    \o (IF sh.seps >= 1 THEN Sep ELSE <<" ">>)
    \o (IF sh.kp THEN <<"Keywords:">> ELSE <<>>)
    \o KeywordList(sh.nkw)
    \o (IF sh.seps >= 2 THEN Sep \o <<"w">> ELSE <<>>)

RECURSIVE RenderResponse(_)
RenderResponse(shapes) ==
    IF shapes = <<>> THEN <<"\n">>
    ELSE IF Len(shapes) = 1 THEN RenderLine(shapes[1]) \o <<"\n">>
    ELSE RenderLine(Head(shapes)) \o <<"\n">> \o RenderResponse(Tail(shapes))

GoodLine(topic) == Shape(TRUE, topic, 1, TRUE, KeywordsPerTopic)

\* the inputs of the runs of main that are explored
MainConfigs ==
    { [file |-> <<ConfigLine(Key1, <<"sk-", "a">>), ConfigLine(Key2, <<"x">>)>>,
       env  |-> Env(NoValue, NoValue)],
      [file |-> NoFile, env |-> Env(<<"k">>, <<"x">>)],
      [file |-> NoFile, env |-> Env(<<"sk-", "a">>, NoValue)] }

MainShapes ==
    { <<GoodLine(1), Shape(TRUE, 1, 0, TRUE, KeywordsPerTopic)>>,
      <<Shape(FALSE, 1, 1, TRUE, KeywordsPerTopic)>> }

MainPriors == {NoContent, <<"q">>}

\* the text the j-th run answers with when it is a prompt job: surrounded by
\* whitespace or not, and not the text of the run before it
AnswerOf(j) == IF j % 2 = 0 THEN <<"a">> ELSE <<" ", "b", "\n">>

NotLoaded == [raised |-> "none", config |-> EmptyDict, missing |-> <<>>]
NotParsed == [raised |-> "none", result |-> <<>>, warnings |-> <<>>]

\* what every specification starts from, but for its inputs
InitRest ==
    /\ exitCode = "running" /\ exitCause = "none"
    /\ loaded = NotLoaded
    /\ now = 0 /\ today = 0
    /\ jobs = <<>> /\ awaited = {} /\ jobStatus = "none" /\ start_time = 0
    /\ parsed = NotParsed
    /\ combinations = <<>> /\ ci = 1 /\ ki = 1 /\ i = 0
    /\ prompt = <<>> /\ filename = "None" /\ existing_content = <<>> /\ buf = <<>>
    /\ num_generated = 0 /\ last_filename = "None"
    /\ prior = files
    /\ saved = <<>> /\ attempted = 0 /\ failed = 0 /\ timeouts = {}
    /\ setupOK = FALSE /\ topicsOK = FALSE /\ intAt = "none"
    /\ log = <<>> /\ promptFrom = "none"

Init ==
    /\ pc = "load_config"
    /\ \E c \in MainConfigs : configFile = c.file /\ environ = c.env
    /\ num_prompts \in 0..MaxPrompts
    /\ remote = "live"
    /\ lineShapes \in MainShapes
    /\ responseText = RenderResponse(lineShapes)
    /\ \E p \in MainPriors :
           files = [f \in FileNames |-> IF f = FileName(0) THEN p ELSE NoContent]
    /\ todo = <<>>
    /\ InitRest

----------------------------------------------------------------------------
(* The remote service and the file system, as main meets them.  "live": a run
   is in progress when created and ends completed or failed, and any call may
   raise.  "instant": every run is completed when first retrieved and answers
   with the fixed text, and any call may raise.  "stub": as "instant", and no
   call raises. *)

Instant == remote # "live"

Faulty == remote # "stub"

StubText == <<"X">>

\* the status runs.create leaves the run in
CreatedStatus == IF Instant THEN "completed" ELSE "in_progress"

\* the text of the first message of the thread of the j-th run
Answer(j) == IF Instant THEN StubText ELSE AnswerOf(j)

\* the runs of a live service are capped; the others end by themselves
JobsLeft == Instant \/ Len(jobs) < MaxJobs

----------------------------------------------------------------------------
(* main: configuration and authentication (lines 217-251) *)

\* line 218: config = load_config(), outside every try
LoadConfig ==
    /\ pc = "load_config"
    /\ loaded' = load_config(configFile, environ)
    /\ IF loaded'.raised = "none" THEN Goto("check_key") ELSE Uncaught("config")
    /\ UNCHANGED <<inputVars, clockVars, jobVars, parsed, loopVars, saveVars, files,
                   countVars, histVars>>

\* SetupError without the sys.exit(1): main goes on after the message
SetupErrorGoesOn == Goto("topics_submit")

\* lines 249-251: except Exception: print, sys.exit(1)
SetupError == Exit(1, "auth")

\* lines 223-229: the format check of the key
CheckKey ==
    /\ pc = "check_key"
    /\ LET api_key == loaded.config[Key1]
       IN  IF StartsWith(api_key, <<"sk-">>) THEN Goto("models_list") ELSE SetupError
    /\ UNCHANGED <<inputVars, loaded, clockVars, jobVars, parsed, loopVars, saveVars,
                   files, countVars, histVars>>

\* lines 232-237: client.models.list() returns or raises
ModelsList ==
    /\ pc = "models_list"
    /\ Goto("assistant_retrieve") \/ (Faulty /\ SetupError)
    /\ UNCHANGED <<inputVars, loaded, clockVars, jobVars, parsed, loopVars, saveVars,
                   files, countVars, histVars>>

\* lines 240-248: client.beta.assistants.retrieve returns or raises
AssistantRetrieve ==
    /\ pc = "assistant_retrieve"
    /\ \/ Goto("topics_submit") /\ setupOK' = TRUE
       \/ Faulty /\ SetupError /\ UNCHANGED setupOK
    /\ UNCHANGED <<inputVars, loaded, clockVars, jobVars, parsed, loopVars, saveVars,
                   files, countVars, saved, attempted, failed, timeouts, topicsOK, intAt,
                   log, promptFrom>>

----------------------------------------------------------------------------
(* The remote job and the poll loop *)

\* threads.create, messages.create, runs.create, then start_time = now.
\* The code uses differences of clock readings only, and only inside the poll
\* loop: the clock is counted from the creation of the run that is polled.
SubmitJob(kind) ==
    /\ jobs' = Append(jobs, kind)
    /\ awaited' = awaited \cup {Len(jobs) + 1}
    /\ jobStatus' = CreatedStatus
    /\ now' = 0
    /\ start_time' = now'

\* PollOutcome with the loop left at any final status of the run
PollOutcomeAnyFinal(status, elapsed) ==
    IF status # "in_progress" THEN "break"
    ELSE IF elapsed > timeout_seconds THEN "timeout"
    ELSE "again"

\* one iteration of the while True loop, after runs.retrieve returned status
PollOutcome(status, elapsed) ==
    IF status = "completed" THEN "break"
    ELSE IF elapsed > timeout_seconds THEN "timeout"
    ELSE "again"

\* the poll loop of the run created last has ended: start_time and the clock
\* readings are not used after it
PollEnded ==
    /\ awaited' = awaited \ {Len(jobs)}
    /\ now' = 0
    /\ start_time' = 0

\* the run object is dropped when the function returns or raises
RunDropped == jobStatus' = "none"

\* the remote service moves the run to a final status
RemoteProgress ==
    /\ pc \in {"topics_poll", "gen_poll"}
    /\ jobStatus = "in_progress"
    /\ jobStatus' \in {"completed", "failed"}
    /\ UNCHANGED <<ctlVars, inputVars, loaded, clockVars, jobs, awaited, start_time,
                   parsed, loopVars, saveVars, files, countVars, histVars>>

\* Tick with a clock that stops once the elapsed time is timeout_seconds
TickUpToTimeout ==
    /\ pc \in {"topics_poll", "gen_poll"}
    /\ now - start_time + TickStep <= timeout_seconds
    /\ now' = now + TickStep
    /\ today' \in {d \in Dates : d >= today}
    /\ UNCHANGED <<ctlVars, inputVars, loaded, jobVars, parsed, loopVars, saveVars,
                   files, countVars, histVars>>

\* the wall clock advances, and the date may change with it.  The clock is
\* read in the poll loops and by save_prompt, which a poll loop precedes: an
\* advance at another place reads as one during the next poll loop.
Tick ==
    /\ pc \in {"topics_poll", "gen_poll"}
    /\ now - start_time < MaxTicks * TickStep
    /\ now' = now + TickStep
    /\ today' \in {d \in Dates : d >= today}
    /\ UNCHANGED <<ctlVars, inputVars, loaded, jobVars, parsed, loopVars, saveVars,
                   files, countVars, histVars>>

----------------------------------------------------------------------------
(* generate_topic_keywords, called at line 260 inside the outer try, which
   handles KeyboardInterrupt only: what it raises ends the process *)

\* lines 72-92
TopicsSubmit ==
    /\ pc = "topics_submit"
    /\ JobsLeft
    /\ \/ SubmitJob("topics") /\ Goto("topics_poll")
       \/ Faulty /\ Uncaught("topics") /\ UNCHANGED <<jobVars, now>>
    /\ UNCHANGED <<inputVars, loaded, today, parsed, loopVars, saveVars, files,
                   countVars, histVars>>

\* lines 94-104: runs.retrieve raises, or one iteration of the loop
TopicsPoll ==
    /\ pc = "topics_poll"
    /\ \/ /\ Faulty
          /\ Uncaught("topics") /\ PollEnded /\ RunDropped
          /\ UNCHANGED <<timeouts, promptFrom>>
       \/ /\ PollOutcome(jobStatus, now - start_time) = "break"
          /\ Goto("topics_fetch") /\ PollEnded
          /\ UNCHANGED <<jobStatus, timeouts, promptFrom>>
       \/ /\ PollOutcome(jobStatus, now - start_time) = "timeout"
          /\ timeouts' = timeouts \cup {now - start_time}
          /\ Uncaught("topics") /\ PollEnded /\ RunDropped
          /\ UNCHANGED promptFrom
       \/ /\ PollOutcome(jobStatus, now - start_time) = "again"
          /\ UNCHANGED <<ctlVars, awaited, now, start_time, jobStatus, timeouts,
                         promptFrom>>
    /\ UNCHANGED <<inputVars, loaded, today, jobs, parsed, loopVars, saveVars, files,
                   countVars, saved, attempted, failed, setupOK, topicsOK, intAt, log>>

\* lines 106-146 and 260-261: messages.list raises, or the text is parsed
TopicsFetch ==
    /\ pc = "topics_fetch"
    /\ RunDropped
    /\ \/ /\ Faulty
          /\ Uncaught("topics")
          /\ UNCHANGED <<parsed, combinations, topicsOK, log>>
       \/ /\ parsed' = ParseResponse(responseText)
          /\ log' = log \o parsed'.warnings
          /\ IF parsed'.raised = "none"
             THEN /\ combinations' = parsed'.result
                  /\ topicsOK' = TRUE
                  /\ Goto("loop")
             ELSE /\ Uncaught("topics")
                  /\ UNCHANGED <<combinations, topicsOK>>
    /\ UNCHANGED <<inputVars, loaded, clockVars, jobs, awaited, start_time, ci, ki, i,
                   saveVars, files, countVars, saved, attempted, failed, timeouts, setupOK,
                   intAt, promptFrom>>

----------------------------------------------------------------------------
(* main: the three nested loops (lines 264-282) *)

\* LoopHeader with one loop of num_prompts iterations for each combination, and
\* no loop over its keywords
LoopHeaderFlat ==
    /\ pc = "loop"
    /\ IF ci > Len(combinations)
       THEN Goto("summary") /\ UNCHANGED <<ci, ki, i>>
       ELSE IF i >= num_prompts
       THEN ci' = ci + 1 /\ ki' = 1 /\ i' = 0 /\ UNCHANGED ctlVars
       ELSE Goto("gen_submit") /\ UNCHANGED <<ci, ki, i>>
    /\ UNCHANGED <<inputVars, loaded, clockVars, jobVars, parsed, combinations,
                   saveVars, files, countVars, histVars>>

\* LoopHeader with the innermost loop over range(prompts_per_keyword + 1)
LoopHeaderInclusive ==
    /\ pc = "loop"
    /\ IF ci > Len(combinations)
       THEN Goto("summary") /\ UNCHANGED <<ci, ki, i>>
       ELSE IF ki > Len(combinations[ci].keywords)
       THEN ci' = ci + 1 /\ ki' = 1 /\ i' = 0 /\ UNCHANGED ctlVars
       ELSE IF i > num_prompts
       THEN ki' = ki + 1 /\ i' = 0 /\ UNCHANGED <<ci, ctlVars>>
       ELSE Goto("gen_submit") /\ UNCHANGED <<ci, ki, i>>
    /\ UNCHANGED <<inputVars, loaded, clockVars, jobVars, parsed, combinations,
                   saveVars, files, countVars, histVars>>

\* the headers of the for loops: the next item, or the end of the loops
LoopHeader ==
    /\ pc = "loop"
    /\ IF ci > Len(combinations)
       THEN Goto("summary") /\ UNCHANGED <<ci, ki, i>>
       ELSE IF ki > Len(combinations[ci].keywords)
       THEN ci' = ci + 1 /\ ki' = 1 /\ i' = 0 /\ UNCHANGED ctlVars
       ELSE IF i >= num_prompts
       THEN ki' = ki + 1 /\ i' = 0 /\ UNCHANGED <<ci, ctlVars>>
       ELSE Goto("gen_submit") /\ UNCHANGED <<ci, ki, i>>
    /\ UNCHANGED <<inputVars, loaded, clockVars, jobVars, parsed, combinations,
                   saveVars, files, countVars, histVars>>

\* ItemRaise with main going on to save_prompt, with the text it holds
ItemRaiseSaves == Goto("save_date") /\ failed' = failed + 1

\* an exception raised inside the inner try is caught at line 280
ItemRaise == Goto("item_except") /\ failed' = failed + 1

\* lines 150-173 of generate_prompt
GenSubmit ==
    /\ pc = "gen_submit"
    /\ JobsLeft
    /\ attempted' = attempted + 1
    /\ \/ SubmitJob("prompt") /\ Goto("gen_poll") /\ UNCHANGED failed
       \/ Faulty /\ ItemRaise /\ UNCHANGED <<jobVars, now>>
    /\ UNCHANGED <<inputVars, loaded, today, parsed, loopVars, saveVars, files,
                   countVars, saved, timeouts, setupOK, topicsOK, intAt, log,
                   promptFrom>>

\* GenPoll with the run polled once: a run that is not completed yet is left
\* behind and main goes on to its next item
GenPollOnce ==
    /\ pc = "gen_poll"
    /\ \/ /\ PollOutcome(jobStatus, now - start_time) = "break"
          /\ Goto("gen_fetch") /\ PollEnded /\ UNCHANGED <<jobStatus, i>>
       \/ /\ PollOutcome(jobStatus, now - start_time) # "break"
          /\ Goto("loop") /\ i' = i + 1
          /\ UNCHANGED <<awaited, now, start_time, jobStatus>>
    /\ UNCHANGED <<inputVars, loaded, today, jobs, parsed, combinations, ci, ki,
                   saveVars, files, countVars, histVars>>

\* lines 175-185: runs.retrieve raises, or one iteration of the loop
GenPoll ==
    /\ pc = "gen_poll"
    /\ \/ /\ Faulty
          /\ ItemRaise /\ PollEnded /\ RunDropped
          /\ UNCHANGED <<timeouts, promptFrom>>
       \/ /\ PollOutcome(jobStatus, now - start_time) = "break"
          /\ Goto("gen_fetch") /\ PollEnded
          /\ UNCHANGED <<jobStatus, timeouts, failed, promptFrom>>
       \/ /\ PollOutcome(jobStatus, now - start_time) = "timeout"
          /\ timeouts' = timeouts \cup {now - start_time}
          /\ ItemRaise /\ PollEnded /\ RunDropped
          /\ UNCHANGED promptFrom
       \/ /\ PollOutcome(jobStatus, now - start_time) = "again"
          /\ UNCHANGED <<ctlVars, awaited, now, start_time, jobStatus, timeouts, failed,
                         promptFrom>>
    /\ UNCHANGED <<inputVars, loaded, today, jobs, parsed, loopVars, saveVars, files,
                   countVars, saved, attempted, setupOK, topicsOK, intAt, log>>

\* lines 187-188 and the strip of line 273: messages.list raises, or the text
\* of the first message is returned and stripped
GenFetch ==
    /\ pc = "gen_fetch"
    /\ RunDropped
    /\ \/ Faulty /\ ItemRaise /\ UNCHANGED <<prompt, promptFrom>>
       \/ /\ prompt' = Strip(Answer(Len(jobs)))
          /\ promptFrom' = jobStatus
          /\ Goto("save_date") /\ UNCHANGED failed
    /\ UNCHANGED <<inputVars, loaded, clockVars, jobs, awaited, start_time, parsed,
                   loopVars, filename, existing_content, buf, files, countVars, saved,
                   attempted, timeouts, setupOK, topicsOK, intAt, log>>

----------------------------------------------------------------------------
(* save_prompt (lines 190-208), statement by statement.  What is written to
   the open file stays in its buffer until the file is closed; leaving the
   with block, by its end or by an exception, closes the file. *)

\* lines 192-193
SaveDate ==
    /\ pc = "save_date"
    /\ filename' = FileName(today)
    /\ Goto("save_read")
    /\ UNCHANGED <<inputVars, loaded, clockVars, jobVars, parsed, loopVars, prompt,
                   existing_content, buf, files, countVars, histVars>>

\* lines 196-199
SaveRead ==
    /\ pc = "save_read"
    /\ existing_content' =
           IF files[filename] # NoContent THEN Strip(files[filename]) ELSE <<>>
    /\ Goto("save_open")
    /\ UNCHANGED <<inputVars, loaded, clockVars, jobVars, parsed, loopVars, prompt,
                   filename, buf, files, countVars, histVars>>

\* OpenAppend with the file opened in mode 'w'
OpenTruncate(content) == <<>>

\* open(filename, 'a'): the file as it is, created empty if absent
OpenAppend(content) == IF content = NoContent THEN <<>> ELSE content

\* line 202: the open raises, or the file is there and open
SaveOpen ==
    /\ pc = "save_open"
    /\ \/ Faulty /\ ItemRaise /\ UNCHANGED <<files, buf>>
       \/ /\ files' = [files EXCEPT ![filename] = OpenAppend(@)]
          /\ buf' = <<>>
          /\ Goto("save_sep") /\ UNCHANGED failed
    /\ UNCHANGED <<inputVars, loaded, clockVars, jobVars, parsed, loopVars, prompt,
                   filename, existing_content, countVars, saved, attempted, timeouts,
                   setupOK, topicsOK, intAt, log, promptFrom>>

\* Separator with the newline written whatever the file holds
SeparatorAlways(existing) == <<"\n">>

\* Separator with the test of line 204 inverted
SeparatorInverted(existing) == IF existing = <<>> THEN <<"\n">> ELSE <<>>

\* lines 204-205
Separator(existing) == IF existing # <<>> THEN <<"\n">> ELSE <<>>

SaveSep ==
    /\ pc = "save_sep"
    /\ buf' = buf \o Separator(existing_content)
    /\ Goto("save_text")
    /\ UNCHANGED <<inputVars, loaded, clockVars, jobVars, parsed, loopVars, prompt,
                   filename, existing_content, files, countVars, histVars>>

\* line 206
SaveText ==
    /\ pc = "save_text"
    /\ buf' = buf \o prompt
    /\ Goto("save_close")
    /\ UNCHANGED <<inputVars, loaded, clockVars, jobVars, parsed, loopVars, prompt,
                   filename, existing_content, files, countVars, histVars>>

\* closing the file appends its buffer to it
Flushed == [files EXCEPT ![filename] = @ \o buf]

\* the end of the with block and line 208
SaveClose ==
    /\ pc = "save_close"
    /\ files' = Flushed
    /\ buf' = <<>>
    /\ saved' = Append(saved, <<filename, prompt>>)
    /\ Goto("saved")
    /\ UNCHANGED <<inputVars, loaded, clockVars, jobVars, parsed, loopVars, prompt,
                   filename, existing_content, countVars, attempted, failed, timeouts,
                   setupOK, topicsOK, intAt, log, promptFrom>>

----------------------------------------------------------------------------
(* main: after save_prompt, the handlers and the end (lines 274-290) *)

\* line 274: last_filename = <what save_prompt returned>
AssignFilename ==
    /\ pc = "saved"
    /\ last_filename' = filename
    /\ Goto("count")
    /\ UNCHANGED <<inputVars, loaded, clockVars, jobVars, parsed, loopVars, saveVars,
                   files, num_generated, histVars>>

\* lines 275-279, and the next iteration of the innermost loop
Count ==
    /\ pc = "count"
    /\ num_generated' = num_generated + 1
    /\ i' = i + 1
    /\ Goto("loop")
    /\ UNCHANGED <<inputVars, loaded, clockVars, jobVars, parsed, combinations, ci, ki,
                   saveVars, files, last_filename, histVars>>

\* ItemExcept without the message: the loop continues silently
ItemExceptSilent ==
    /\ pc = "item_except"
    /\ i' = i + 1
    /\ Goto("loop")
    /\ UNCHANGED <<inputVars, loaded, clockVars, jobVars, parsed, combinations, ci, ki,
                   saveVars, files, countVars, histVars>>

\* ItemExcept with the exception raised again after the message
ItemExceptRaises ==
    /\ pc = "item_except"
    /\ Uncaught("item")
    /\ UNCHANGED <<inputVars, loaded, clockVars, jobVars, parsed, loopVars, saveVars,
                   files, countVars, histVars>>

\* lines 280-282: the message is printed and the loop continues
ItemExcept ==
    /\ pc = "item_except"
    /\ log' = Append(log, "error generating prompt")
    /\ i' = i + 1
    /\ Goto("loop")
    /\ UNCHANGED <<inputVars, loaded, clockVars, jobVars, parsed, combinations, ci, ki,
                   saveVars, files, countVars, saved, attempted, failed, timeouts,
                   setupOK, topicsOK, intAt, promptFrom>>

\* lines 289-290: the summary, and main returns
Summary ==
    /\ pc = "summary"
    /\ Exit(0, "normal")
    /\ UNCHANGED <<inputVars, loaded, clockVars, jobVars, parsed, loopVars, saveVars,
                   files, countVars, histVars>>

\* where main is inside the try of lines 257-282
InOuterTry ==
    pc \in {"topics_submit", "topics_poll", "topics_fetch", "loop", "gen_submit",
            "gen_poll", "gen_fetch", "save_date", "save_read", "save_open",
            "save_sep", "save_text", "save_close", "saved", "count", "item_except"}

\* main is inside the try of lines 272-282, at an item
AtItem ==
    pc \in {"gen_submit", "gen_poll", "gen_fetch", "save_date", "save_read", "save_open",
            "save_sep", "save_text", "save_close", "saved", "count", "item_except"}

\* main is inside save_prompt, or back from it
AtSave ==
    pc \in {"save_date", "save_read", "save_open", "save_sep", "save_text",
            "save_close", "saved", "count"}

\* where save_prompt is inside its with block
FileIsOpen == pc \in {"save_sep", "save_text", "save_close"}

\* KeyboardInterrupt is raised where main is.  Inside the outer try it is
\* handled at lines 283-287 (sys.exit(0)); anywhere else no handler catches
\* it (except Exception does not) and the interpreter ends the process with
\* status 130.  A with block that is left closes its file.
Interrupt ==
    /\ pc # "exited"
    /\ intAt' = pc
    /\ files' = IF FileIsOpen THEN Flushed ELSE files
    /\ buf' = <<>>
    /\ IF InOuterTry THEN Exit(0, "interrupt") ELSE Exit(130, "interrupt")
    /\ UNCHANGED <<inputVars, loaded, clockVars, jobVars, parsed, loopVars, prompt,
                   filename, existing_content, countVars, saved, attempted, failed,
                   timeouts, setupOK, topicsOK, log, promptFrom>>

Next ==
    \/ LoadConfig \/ CheckKey \/ ModelsList \/ AssistantRetrieve
    \/ TopicsSubmit \/ TopicsPoll \/ TopicsFetch
    \/ LoopHeader \/ GenSubmit \/ GenPoll \/ GenFetch
    \/ SaveDate \/ SaveRead \/ SaveOpen \/ SaveSep \/ SaveText \/ SaveClose
    \/ AssignFilename \/ Count \/ ItemExcept \/ Summary
    \/ RemoteProgress \/ Tick \/ Interrupt

Spec == Init /\ [][Next]_vars

----------------------------------------------------------------------------
(* Properties of a run of main *)

\* the entries read back from a file: its lines, none for an absent or empty file
Entries(content) ==
    IF content = NoContent \/ content = <<>> THEN <<>> ELSE Split(content, <<"\n">>)

\* the prompts save_prompt has saved in file f, in the order of the calls
SavedIn(f) ==
    LET calls == SelectSeq(saved, LAMBDA e : e[1] = f)
    IN  [n \in 1..Len(calls) |-> calls[n][2]]

\* the items main plans: num_prompts for each keyword of each combination
Planned == KeywordsPerTopic * num_prompts * Len(combinations)

InFlight == {"gen_poll", "gen_fetch"}

\* C1: a poll loop is left towards the fetch of the text only when the status
\* read is 'completed', so a run that never completes never yields a text; and
\* every TimeoutError is raised at an elapsed time of at least the timeout.
C1_PollUntilComplete ==
    /\ pc \in {"topics_fetch", "gen_fetch"} => jobStatus = "completed"
    /\ \A elapsed \in timeouts : elapsed >= timeout_seconds

\* a run that failed remotely was polled until TimeoutError, inside the loops
C1_Witness ==
    /\ pc = "item_except"
    /\ timeouts # {}
    /\ jobs[Len(jobs)] = "prompt"

\* C2: a process that ended after one of its items failed, and not by the user
\* interrupt, ended normally with every planned item attempted.
C2_ItemFailureNotFatal ==
    (pc = "exited" /\ failed > 0 /\ exitCause # "interrupt")
        => (exitCode = 0 /\ exitCause = "normal" /\ attempted = Planned)

\* after a timeout and another failure, a later item was saved and the run
\* ended normally
C2_Witness ==
    /\ pc = "exited" /\ exitCause = "normal"
    /\ timeouts # {} /\ failed >= 2
    /\ num_generated >= 1 /\ attempted = Planned /\ Planned > 0

\* C3: when the interrupt arrives while an item is in flight (its job created,
\* polled or completed, its text not yet returned), each output file holds,
\* after what it held before the run, exactly the items saved so far, in order.
C3_InterruptKeepsSaved ==
    (pc = "exited" /\ exitCause = "interrupt" /\ intAt \in InFlight)
        => \A f \in FileNames : Entries(files[f]) = Entries(prior[f]) \o SavedIn(f)

\* two items saved, the third in flight when the interrupt arrived
C3_Witness ==
    /\ pc = "exited" /\ exitCause = "interrupt" /\ intAt \in InFlight
    /\ Len(saved) = 2 /\ attempted = 3 /\ exitCode = 0

\* C4: no output file ever ends with a separator whose item is missing: a file
\* that changed ends with the last character of an item.
C4_AppendAtomic ==
    \A f \in FileNames :
        \/ files[f] = prior[f]
        \/ files[f] = <<>> /\ prior[f] = NoContent
        \/ /\ files[f] # NoContent /\ files[f] # <<>>
           /\ files[f][Len(files[f])] \notin Whitespace

\* C6: the exit status is 0 after normal completion and after a user
\* interrupt, wherever it arrives, and not 0 after a fatal failure.
C6_ExitCodes ==
    pc = "exited" =>
        /\ exitCause \in {"normal", "interrupt"} => exitCode = 0
        /\ exitCause \in {"config", "auth", "topics"} => exitCode # 0

\* C7: no run is created before the authentication succeeded; no prompt job is
\* created and nothing is written before the topic fetch succeeded too; a process
\* ended by a failure of either phase has created no prompt job and left the
\* output files as they were.
C7_SetupBeforeWork ==
    /\ jobs # <<>> => setupOK
    /\ ((\E j \in 1..Len(jobs) : jobs[j] = "prompt") \/ files # prior \/ buf # <<>>)
           => (setupOK /\ topicsOK)
    /\ (pc = "exited" /\ exitCause = "auth") => (jobs = <<>> /\ files = prior)
    /\ (pc = "exited" /\ exitCause = "topics")
           => (files = prior /\ \A j \in 1..Len(jobs) : jobs[j] = "topics")

\* the topic job timed out and the process ended with the topic job alone
C7_Witness ==
    /\ pc = "exited" /\ exitCause = "topics"
    /\ timeouts # {} /\ jobs = <<"topics">> /\ setupOK

\* C9: at most one run is awaited at any time.
C9_OneOutstandingJob == Cardinality(awaited) <= 1

\* a run is awaited after the poll loops of two earlier runs ended, one of
\* them by a timeout
C9_Witness ==
    /\ Len(jobs) >= 3 /\ awaited = {Len(jobs)}
    /\ timeouts # {}

\* the messages of line 281 printed so far
ErrorsLogged == Len(SelectSeq(log, LAMBDA m : m = "error generating prompt"))

\* the warnings of lines 119-140 printed so far
WarningsLogged == Len(log) - ErrorsLogged

\* C15: once the response is parsed, one warning has been printed for each of
\* its lines that gave no combination, before anything else is printed; and
\* wherever main is past the handler of a failed item (the interrupt not
\* having ended it there), one message has been printed for each failed item.
C15_FailuresLogged ==
    /\ parsed # NotParsed =>
           /\ WarningsLogged = Len(lineShapes) - Len(parsed.result)
           /\ SubSeq(log, 1, WarningsLogged) = parsed.warnings
    /\ parsed = NotParsed => log = <<>>
    /\ (pc # "item_except" /\ intAt # "item_except") => ErrorsLogged = failed
    /\ failed - ErrorsLogged \in {0, 1}

\* a line was skipped, an item timed out and another failed otherwise, and the
\* run is at its next item with the three messages printed
C15_Witness ==
    /\ pc = "gen_poll"
    /\ timeouts # {} /\ failed = 2
    /\ log = <<"missing separator", "error generating prompt", "error generating prompt">>

\* C18: when the process has ended normally or by the user interrupt,
\* num_generated is the number of items save_prompt appended during the run,
\* and every one of them is in the file the summary names.
C18_SummaryMatchesFiles ==
    (pc = "exited" /\ exitCause \in {"normal", "interrupt"}) =>
        /\ num_generated = Len(saved)
        /\ \A n \in 1..Len(saved) : saved[n][1] = last_filename

\* main is inside generate_prompt
AtGenerate == pc \in {"gen_submit", "gen_poll", "gen_fetch"}

\* C19: the text given to save_prompt is the stripped text of the run created
\* last, a prompt run whose poll loop read 'completed'; every saved item is
\* the stripped text of a prompt run; nothing but the separator and that text
\* is written; no step taken inside generate_prompt and no step that raises
\* to the handler of the item changes a file or writes to one.
C19_WritesOnlyCompleted ==
    /\ [](AtSave => /\ promptFrom = "completed"
                    /\ jobs[Len(jobs)] = "prompt"
                    /\ prompt = Strip(Answer(Len(jobs))))
    /\ [](\A n \in 1..Len(saved) :
             \E j \in 1..Len(jobs) : jobs[j] = "prompt" /\ saved[n][2] = Strip(Answer(j)))
    /\ [](buf \in {<<>>, <<"\n">>, prompt, <<"\n">> \o prompt})
    /\ [][(AtGenerate \/ pc' = "item_except") => (files' = files /\ buf' = buf)]_vars

\* the first item timed out and wrote nothing; the second, whose run
\* completed, is saved as the stripped text of its run
C19_Witness ==
    /\ pc = "saved"
    /\ timeouts # {} /\ failed = 1
    /\ jobs = <<"topics", "prompt", "prompt">>
    /\ saved = << <<FileName(0), <<"b">>>> >>
    /\ files[FileName(0)] = prior[FileName(0)] \o <<"\n", "b">>

----------------------------------------------------------------------------
(* save_prompt alone: a file with some content, items saved one after the
   other on one date *)

SavePriors == {NoContent, <<>>, <<"q">>, <<"q", "\n">>, <<" ", "q">>, <<"\n">>, <<" ">>}

SaveItems == { <<"a">>, <<"b">>, <<"a", " ", "b">>, <<>>, <<" ">>, <<"a", "\n", "b">> }

InitSave ==
    /\ pc = "save_idle"
    /\ configFile = NoFile /\ environ = Env(NoValue, NoValue)
    /\ num_prompts = 0
    /\ remote = "live"
    /\ lineShapes = <<>> /\ responseText = <<>>
    /\ \E p \in SavePriors :
           files = [f \in FileNames |-> IF f = FileName(0) THEN p ELSE NoContent]
    /\ todo \in [1..MaxItems -> SaveItems]
    /\ InitRest

\* the caller: save_prompt(item) for the next item
SaveNext ==
    /\ pc \in {"save_idle", "saved"}
    /\ todo # <<>>
    /\ prompt' = Head(todo)
    /\ todo' = Tail(todo)
    /\ Goto("save_date")
    /\ UNCHANGED <<configFile, environ, num_prompts, remote, lineShapes, responseText, prior,
                   loaded, clockVars, jobVars, parsed, loopVars, filename,
                   existing_content, buf, files, countVars, histVars>>

NextSave ==
    \/ SaveNext
    \/ SaveDate \/ SaveRead \/ SaveOpen \/ SaveSep \/ SaveText \/ SaveClose

SpecSave == InitSave /\ [][NextSave]_vars

\* every item given to save_prompt has been saved
AllSaved == pc = "saved" /\ todo = <<>>

\* the items passed to save_prompt so far, in the order of the calls
ItemsSaved == [n \in 1..Len(saved) |-> saved[n][2]]

\* the content of a file as a string, empty for an absent file
Text(content) == IF content = NoContent THEN <<>> ELSE content

\* an item that reads back as one entry: some character that is no whitespace,
\* and no newline
OneLine(item) == Strip(item) # <<>> /\ ~Contains(item, <<"\n">>)

\* C5 as stated: after the saves the file starts with the prior content and
\* reading it yields, after the prior entries, the items in order, whatever
\* the prior content and the items are.
C5_AppendOnlyRoundTrip ==
    AllSaved =>
        /\ StartsWith(files[FileName(0)], Text(prior[FileName(0)]))
        /\ Entries(files[FileName(0)]) = Entries(prior[FileName(0)]) \o ItemsSaved

\* C5 as amended: the prior content stays a prefix of the file at every point;
\* and when the prior content is absent, empty or holds a character that is
\* no whitespace, and every item holds such a character and no newline,
\* reading the file yields, after the prior entries, the items in order.
C5_AppendOnly ==
    /\ files[FileName(0)] # NoContent
           => StartsWith(files[FileName(0)], Text(prior[FileName(0)]))
    /\ files[FileName(0)] = NoContent => prior[FileName(0)] = NoContent
    /\ ( /\ AllSaved
         /\ Text(prior[FileName(0)]) = <<>> \/ Strip(Text(prior[FileName(0)])) # <<>>
         /\ \A n \in 1..Len(saved) : OneLine(saved[n][2]) )
           => Entries(files[FileName(0)]) = Entries(prior[FileName(0)]) \o ItemsSaved

\* three one-line items, two of them equal, saved after a file with content
C5_Witness ==
    /\ AllSaved
    /\ prior[FileName(0)] = <<"q">>
    /\ Len(saved) >= 3
    /\ ItemsSaved[1] = <<"a">> /\ ItemsSaved[2] = <<"a">> /\ ItemsSaved[3] = <<"b">>
    /\ Entries(files[FileName(0)]) = << <<"q">>, <<"a">>, <<"a">>, <<"b">> >>

\* the strings with a newline between two consecutive ones
RECURSIVE Joined(_)
Joined(parts) ==
    IF parts = <<>> THEN <<>>
    ELSE IF Len(parts) = 1 THEN parts[1]
    ELSE Head(parts) \o <<"\n">> \o Joined(Tail(parts))

\* the prior content, if there is some, then the items, a newline between two
\* consecutive ones and none at the start
Separated(p, items) ==
    Joined((IF Text(p) = <<>> THEN <<>> ELSE <<Text(p)>>) \o items)

\* the separator has just been written, or not, to the open file
SeparatorDone == pc = "save_text"

Blank(s) == Strip(s) = <<>>

\* C14 as stated: the newline is written before the item exactly when the file
\* holds some content; hence after the saves the file is the prior content, if
\* any, and the items, with a newline between two consecutive ones and none at
\* the start.
C14_SeparatorIffContent ==
    /\ SeparatorDone => (buf = <<"\n">> <=> files[filename] # <<>>)
    /\ SeparatorDone => (buf = <<>> <=> files[filename] = <<>>)
    /\ pc = "saved" => Text(files[FileName(0)]) = Separated(prior[FileName(0)], ItemsSaved)

\* C14 as amended: the newline is written before the item exactly when the
\* file holds a character that is no whitespace; hence, when the prior content
\* is absent, empty or holds such a character and every item holds one, the
\* file is the prior content, if any, and the items, with a newline between
\* two consecutive ones and none at the start.
C14_SeparatorPolicy ==
    /\ SeparatorDone => (buf = <<"\n">> <=> ~Blank(files[filename]))
    /\ SeparatorDone => (buf = <<>> <=> Blank(files[filename]))
    /\ ( /\ pc = "saved"
         /\ Text(prior[FileName(0)]) = <<>> \/ ~Blank(Text(prior[FileName(0)]))
         /\ \A n \in 1..Len(saved) : ~Blank(saved[n][2]) )
           => Text(files[FileName(0)]) = Separated(prior[FileName(0)], ItemsSaved)

\* three items saved to a file that was there and empty: no newline at the
\* start, one between two items
C14_Witness ==
    /\ AllSaved
    /\ prior[FileName(0)] = <<>>
    /\ ItemsSaved = << <<"b">>, <<"a", " ", "b">>, <<"a">> >>
    /\ files[FileName(0)] = <<"b", "\n", "a", " ", "b", "\n", "a">>

----------------------------------------------------------------------------
(* The parser alone: the topic job is completed and answers with one to
   MaxLines lines, each well formed or malformed in one way *)

ParseShapes ==
    { GoodLine(1), GoodLine(2),
      Shape(FALSE, 1, 1, TRUE, KeywordsPerTopic),       \* no "Topic:" prefix
      Shape(TRUE, 1, 1, FALSE, KeywordsPerTopic),       \* no "Keywords:" prefix
      Shape(TRUE, 1, 0, TRUE, KeywordsPerTopic),        \* no separator
      Shape(TRUE, 1, 2, TRUE, KeywordsPerTopic),        \* two separators
      Shape(TRUE, 0, 1, TRUE, KeywordsPerTopic),        \* no topic
      Shape(TRUE, 1, 1, TRUE, KeywordsPerTopic - 1),    \* a keyword too few
      Shape(TRUE, 1, 1, TRUE, KeywordsPerTopic + 1),    \* a keyword too many
      Shape(TRUE, 2, 1, TRUE, 0) }                      \* no keyword

InitParse ==
    /\ pc = "topics_fetch"
    /\ configFile = NoFile /\ environ = Env(NoValue, NoValue)
    /\ num_prompts = 0
    /\ remote = "live"
    /\ \E n \in 1..MaxLines : lineShapes \in [1..n -> ParseShapes]
    /\ responseText = RenderResponse(lineShapes)
    /\ files = [f \in FileNames |-> NoContent]
    /\ todo = <<>>
    /\ InitRest

NextParse == TopicsFetch

SpecParse == InitParse /\ [][NextParse]_vars

\* a line is well formed: both prefixes, a topic, one separator, five keywords
WellFormed(sh) ==
    sh.tp /\ sh.kp /\ sh.seps = 1 /\ sh.topic # 0 /\ sh.nkw = KeywordsPerTopic

\* the combination a well formed line stands for
CombinationOf(sh) ==
    [topic |-> TopicText(sh.topic), keywords |-> [n \in 1..sh.nkw |-> <<"w">>]]

\* the combinations of the well formed lines, in the order of the lines
RECURSIVE ExpectedCombinations(_)
ExpectedCombinations(shapes) ==
    IF shapes = <<>> THEN <<>>
    ELSE (IF WellFormed(Head(shapes)) THEN <<CombinationOf(Head(shapes))>> ELSE <<>>)
         \o ExpectedCombinations(Tail(shapes))

HasParsed == parsed # NotParsed

\* C8: the parser returns the combinations of the well formed lines, in the
\* order of the lines, each with a topic and five keywords; it prints one
\* warning for each other line; it raises only the no-valid-combination error,
\* and that exactly when no line is well formed.
C8_ParserSkipsMalformed ==
    HasParsed =>
        /\ parsed.result = ExpectedCombinations(lineShapes)
        /\ Len(parsed.warnings) + Len(parsed.result) = Len(lineShapes)
        /\ parsed.raised \in {"none", "ValueError:no combinations"}
        /\ parsed.raised = "ValueError:no combinations"
               <=> \A n \in 1..Len(lineShapes) : ~WellFormed(lineShapes[n])
        /\ \A n \in 1..Len(parsed.result) :
               /\ parsed.result[n].topic # <<>>
               /\ Len(parsed.result[n].keywords) = KeywordsPerTopic
        /\ pc = "loop" => combinations = parsed.result

\* a line with two separators, which makes the unpacking raise, is skipped and
\* the well formed line after it is returned
C8_Witness ==
    /\ HasParsed /\ pc = "loop"
    /\ Len(lineShapes) >= 2
    /\ lineShapes[1].seps = 2 /\ WellFormed(lineShapes[2])
    /\ parsed.warnings = <<"error parsing">>
    /\ combinations = <<CombinationOf(lineShapes[2])>>

----------------------------------------------------------------------------
(* load_config alone, and the format check after it: config.txt absent or of
   up to MaxConfigLines lines, and an environment *)

\* values written after KEY= in config.txt
FileValues == { <<"sk-", "a">>, <<"sk-", "b", "=">>, <<"x">>, <<"x", "=", "y">>, <<>> }

\* values of the environment variables
EnvValues == { NoValue, <<>>, <<"sk-", "c">>, <<"z">> }

KeyLines(key) == {ConfigLine(key, v) : v \in FileValues}

\* a comment, which holds no "="
OtherLines == { <<"#", " ", "x">> }

ConfigLines == KeyLines(Key1) \cup KeyLines(Key2) \cup OtherLines

InitConfig ==
    /\ pc = "load_config"
    /\ \/ configFile = NoFile
       \/ \E n \in 0..MaxConfigLines : configFile \in [1..n -> ConfigLines]
    /\ environ \in [{Key1, Key2} -> EnvValues]
    /\ num_prompts = 0
    /\ remote = "live"
    /\ lineShapes = <<>> /\ responseText = <<>>
    /\ files = [f \in FileNames |-> NoContent]
    /\ todo = <<>>
    /\ InitRest

NextConfig == LoadConfig \/ CheckKey

SpecConfig == InitConfig /\ [][NextConfig]_vars

HasLoaded == pc # "load_config"

\* config.txt gives the value v for the key: one line key=v, no other line for it
FileGives(key, v) ==
    /\ configFile # NoFile
    /\ \E n \in 1..Len(configFile) :
           /\ configFile[n] = ConfigLine(key, v)
           /\ \A m \in 1..Len(configFile) : m # n => configFile[m] \notin KeyLines(key)

\* config.txt is absent or holds no line for the key
FileSilent(key) ==
    configFile = NoFile \/ \A n \in 1..Len(configFile) : configFile[n] \notin KeyLines(key)

\* the value v for the key comes from the file, or from the environment while
\* the file has none
Supplied(key, v) == FileGives(key, v) \/ (FileSilent(key) /\ environ[key] = v)

ValidApiKey(v) == v # NoValue /\ v # <<>> /\ StartsWith(v, <<"sk-">>)

ValidAssistantId(v) == v # NoValue /\ v # <<>>

\* C10: a valid pair of credentials, each from config.txt or from the
\* environment, the file first, is returned by load_config as it is.
C10_ConfigUnmodified ==
    HasLoaded =>
        \A v1 \in FileValues \cup EnvValues, v2 \in FileValues \cup EnvValues :
            ( /\ ValidApiKey(v1) /\ ValidAssistantId(v2)
              /\ Supplied(Key1, v1) /\ Supplied(Key2, v2) )
                => ( /\ loaded.raised = "none"
                     /\ loaded.config[Key1] = v1
                     /\ loaded.config[Key2] = v2 )

\* the credentials main holds once load_config returned
api_key == loaded.config[Key1]

assistant_id == loaded.config[Key2]

\* load_config returned and the format check of line 226 passed
FormatChecked == pc = "models_list"

\* C11: credentials that passed load_config and the format check are both
\* non-empty, and the API key starts with "sk-".
C11_CredentialsNonEmpty ==
    FormatChecked =>
        /\ api_key # <<>> /\ StartsWith(api_key, <<"sk-">>)
        /\ assistant_id # <<>>

\* config.txt holds a line for the key
InFile(key) ==
    configFile # NoFile /\ \E n \in 1..Len(configFile) : configFile[n] \in KeyLines(key)

\* the environment holds a value for the key (an empty value counts as none)
InEnv(key) == environ[key] # NoValue /\ environ[key] # <<>>

\* the required keys found in neither source, in the order of required_keys
MissingBoth == SelectSeq(required_keys, LAMBDA key : ~InFile(key) /\ ~InEnv(key))

\* C12: load_config raises exactly when a required key is found in neither
\* config.txt nor the environment, and the error names exactly those keys.
C12_MissingKeysExact ==
    HasLoaded =>
        /\ loaded.raised # "none" <=> MissingBoth # <<>>
        /\ loaded.raised # "none" =>
               (loaded.raised = "ValueError:missing" /\ loaded.missing = MissingBoth)

----------------------------------------------------------------------------
(* End to end with a stubbed remote service: every run is completed when
   first retrieved, every prompt run answers with the fixed text, no call
   raises, the clock stands still and no interrupt arrives *)

RECURSIVE GoodLines(_)
GoodLines(n) == IF n = 0 THEN <<>> ELSE Append(GoodLines(n - 1), GoodLine(1 + (n % 2)))

\* what the topic run answers with: the fixed text too, or well formed lines
StubAnswers ==
    { [shapes |-> <<>>, text |-> StubText] }
    \cup { [shapes |-> GoodLines(n), text |-> RenderResponse(GoodLines(n))] :
             n \in 1..MaxStubLines }

InitStub ==
    /\ pc = "load_config"
    /\ configFile = NoFile /\ environ = Env(<<"sk-", "a">>, <<"x">>)
    /\ num_prompts \in 0..MaxStubPrompts
    /\ remote = "stub"
    /\ \E a \in StubAnswers : lineShapes = a.shapes /\ responseText = a.text
    /\ \E p \in MainPriors :
           files = [f \in FileNames |-> IF f = FileName(0) THEN p ELSE NoContent]
    /\ todo = <<>>
    /\ InitRest

NextStub ==
    \/ LoadConfig \/ CheckKey \/ ModelsList \/ AssistantRetrieve
    \/ TopicsSubmit \/ TopicsPoll \/ TopicsFetch
    \/ LoopHeader \/ GenSubmit \/ GenPoll \/ GenFetch
    \/ SaveDate \/ SaveRead \/ SaveOpen \/ SaveSep \/ SaveText \/ SaveClose
    \/ AssignFilename \/ Count \/ Summary

SpecStub == InitStub /\ [][NextStub]_vars

\* how many times the symbol occurs in the string
Occurrences(s, x) == Cardinality({k \in 1..Len(s) : s[k] = x})

\* n times the fixed text (one symbol), a newline between two of them
StubItems(n) == [k \in 1..(2 * n - 1) |-> IF k % 2 = 1 THEN StubText[1] ELSE "\n"]

\* the file after n items were appended to the prior content
FileWith(p, n) ==
    IF n = 0 THEN Text(p)
    ELSE Text(p) \o (IF Text(p) # <<>> THEN <<"\n">> ELSE <<>>) \o StubItems(n)

\* C13 as stated: a stubbed run with -n 3 ends with a file that holds the fixed
\* text exactly 3 times, a newline between two of them.
C13_ThreeItemsThreeTexts ==
    (pc = "exited" /\ num_prompts = 3) =>
        /\ Occurrences(Text(files[FileName(0)]), "X") = 3
        /\ Text(files[FileName(0)]) = FileWith(prior[FileName(0)], 3)

\* C13 as amended: when the topic run answers with the fixed text too, the run
\* ends with status 1 and the files as they were; when it answers with C well
\* formed lines, a run with -n N ends with status 0 and a file that holds, after
\* its prior content, the fixed text exactly 5*N*C times, a newline between
\* two of them, and num_generated is 5*N*C.
C13_EndToEnd ==
    pc = "exited" =>
        IF responseText = StubText
        THEN exitCode = 1 /\ exitCause = "topics" /\ files = prior
        ELSE /\ exitCode = 0
             /\ Len(combinations) = Len(lineShapes)
             /\ num_generated = Planned
             /\ Occurrences(Text(files[FileName(0)]), "X") = Planned
             /\ Text(files[FileName(0)]) = FileWith(prior[FileName(0)], Planned)
             /\ files[FileName(1)] = NoContent

\* -n 3 and one combination: fifteen items in a file that held "q"
C13_Witness ==
    /\ pc = "exited" /\ exitCode = 0
    /\ num_prompts = 3 /\ Len(combinations) = 1
    /\ prior[FileName(0)] = <<"q">>
    /\ Occurrences(files[FileName(0)], "X") = 15

----------------------------------------------------------------------------
(* The run loop alone: every run is completed when first retrieved, any call
   may raise, the clock stands still and no interrupt arrives *)

InitLoop ==
    /\ pc = "load_config"
    /\ configFile = NoFile /\ environ = Env(<<"sk-", "a">>, <<"x">>)
    /\ num_prompts \in 0..MaxLoopPrompts
    /\ remote = "instant"
    /\ \E n \in 1..MaxLoopLines :
           lineShapes = GoodLines(n) /\ responseText = RenderResponse(GoodLines(n))
    /\ files = [f \in FileNames |-> NoContent]
    /\ todo = <<>>
    /\ InitRest

NextLoop ==
    \/ LoadConfig \/ CheckKey \/ ModelsList \/ AssistantRetrieve
    \/ TopicsSubmit \/ TopicsPoll \/ TopicsFetch
    \/ LoopHeader \/ GenSubmit \/ GenPoll \/ GenFetch
    \/ SaveDate \/ SaveRead \/ SaveOpen \/ SaveSep \/ SaveText \/ SaveClose
    \/ AssignFilename \/ Count \/ ItemExcept \/ Summary

SpecLoop == InitLoop /\ [][NextLoop]_vars

\* the attempts made before the one for the c-th combination, its k-th keyword
\* and the iteration n, when the attempts go by topic, then keyword, then
\* iteration
AttemptsBefore(c, k, n) == ((c - 1) * KeywordsPerTopic + (k - 1)) * num_prompts + n

\* C16: the attempts are made by topic, then keyword, then iteration: the
\* attempt under way is for an existing combination, one of its five keywords
\* and an iteration below N, and as many attempts precede it as that order
\* gives; each attempt is a call of generate_prompt which either failed or was
\* followed by save_prompt for the text of its run; and the run that ends
\* normally has made 5*N*C attempts.
C16_AttemptsInOrder ==
    /\ pc \in {"loop", "gen_submit"} => attempted = AttemptsBefore(ci, ki, i)
    /\ (AtItem /\ pc # "gen_submit") => attempted = AttemptsBefore(ci, ki, i) + 1
    /\ AtItem =>
           /\ ci \in 1..Len(combinations)
           /\ ki \in 1..KeywordsPerTopic
           /\ i \in 0..(num_prompts - 1)
    /\ pc \in {"loop", "gen_submit", "summary"} => Len(saved) + failed = attempted
    /\ AtSave => (jobs[Len(jobs)] = "prompt" /\ prompt = Strip(Answer(Len(jobs))))
    /\ (AtSave /\ pc \notin {"saved", "count"}) => Len(saved) + failed = attempted - 1
    /\ (pc = "exited" /\ exitCause = "normal") =>
           /\ attempted = KeywordsPerTopic * num_prompts * Len(combinations)
           /\ Len(combinations) = Len(lineShapes)

\* two combinations and -n 2: twenty attempts, some failed and some saved
C16_Witness ==
    /\ pc = "exited" /\ exitCause = "normal"
    /\ num_prompts = 2 /\ Len(combinations) = 2
    /\ attempted = 20 /\ failed = 3 /\ Len(saved) = 17

----------------------------------------------------------------------------
(* Termination.  The runs are those of Spec whose jobs fit the cap of a live
   service.  The interpreter keeps executing main, every remote call returns
   or raises, and the clock advances while a poll loop spins; which of the
   two a call does, whether the remote run ever ends and whether an interrupt
   arrives are left open. *)

InitLive ==
    /\ Init
    /\ 1 + KeywordsPerTopic * num_prompts * Len(ParseResponse(responseText).result)
           <= MaxJobs

\* the iteration of a poll loop that leaves it: the run is completed or the
\* timeout has passed (or runs.retrieve raised then)
PollDecided == PollOutcome(jobStatus, now - start_time) # "again"

\* a step of main other than an iteration that stays in its poll loop
MainStep ==
    \/ LoadConfig \/ CheckKey \/ ModelsList \/ AssistantRetrieve
    \/ TopicsSubmit \/ (TopicsPoll /\ PollDecided) \/ TopicsFetch
    \/ LoopHeader \/ GenSubmit \/ (GenPoll /\ PollDecided) \/ GenFetch
    \/ SaveDate \/ SaveRead \/ SaveOpen \/ SaveSep \/ SaveText \/ SaveClose
    \/ AssignFilename \/ Count \/ ItemExcept \/ Summary

SpecLive == InitLive /\ [][Next]_vars /\ WF_vars(MainStep) /\ WF_vars(Tick)

\* C17: every run reaches the exit of the process, and every poll loop ends:
\* whenever a run is awaited, later none is, or the process has ended.
C17_Terminates ==
    /\ <>(pc = "exited")
    /\ (awaited # {}) ~> (awaited = {} \/ pc = "exited")

\* every item of the run failed, one of them by the timeout of a run that
\* never completed, and the run ended normally
C17_Witness ==
    /\ pc = "exited" /\ exitCause = "normal"
    /\ Planned > 0 /\ failed = Planned /\ num_generated = 0
    /\ timeouts # {}

====
